---- MODULE Spec2Model ----
(***************************************************************************)
(* EMA crossover bot (src/service.js): the strategy tick, the position     *)
(* lifecycle (openTrade / closeTrade), startup reconciliation and the      *)
(* triggers of tick() (timer, /api/tick, stale /api/price).                *)
(*                                                                         *)
(* The process is a single-threaded event loop: code between two awaits    *)
(* runs atomically, so every action below is one such run-to-completion    *)
(* segment.  The awaits of tick() are the price fetch (line 199), the      *)
(* insert of openTrade (line 146) and the conditional update of closeTrade *)
(* (line 168).  The market-data provider, the moving-average engine and    *)
(* the storage driver are the environment: their answers are inputs.       *)
(***************************************************************************)
EXTENDS Integers, Sequences, FiniteSets, TLC

(* ------------------------------ bounds -------------------------------- *)
MaxInvocations == 2     \* tick() invocations that can be in flight at once
MaxStore == 2           \* documents the positions collection can hold

(* ------------------------- configuration ------------------------------ *)
SYMBOL == "BTCUSDT"
OTHER_SYMBOL == "ETHUSDT"
\* The four periods are environment settings (defaults 20 / 50 and 9 / 21);
\* the values here keep their order: exit fast < entry fast < exit slow <
\* entry slow.
EMA_ENTRY_FAST == 3
EMA_ENTRY_SLOW == 5
EMA_EXIT_FAST == 2
EMA_EXIT_SLOW == 4
QTY == 1
STALE_MS == 70000
JsNull == -1            \* JavaScript null
Undefined == -2         \* JavaScript undefined (Array.prototype.at out of range)
DRYRUN_ID == 0          \* the _id "dryrun" of a position that was never stored

Max(a, b) == IF a > b THEN a ELSE b

\* Mutant: the length check is closes.length <= Math.max(...).
RequiredCandlesExclusive == Max(EMA_ENTRY_SLOW, EMA_EXIT_SLOW) + 1

\* Math.max(EMA_ENTRY_SLOW, EMA_EXIT_SLOW)
RequiredCandles == Max(EMA_ENTRY_SLOW, EMA_EXIT_SLOW)

(* --------------------------- input domains ---------------------------- *)
Slots == 1..MaxInvocations
Prices == {90, 100}
\* Wall-clock readings, in ms.  Times are the stamps a tick can store; a
\* reading that is only compared (the staleness test of /api/price) can lie
\* later, by more than the staleness threshold.
Times == {0}
Readings == Times \cup {t + STALE_MS + 10000 : t \in Times}

\* The price window fetchCloses() returns: closing prices, oldest first.
\* tick() tells a window shorter than RequiredCandles from the others and
\* reads the last price and the last two values of each EMA series, so the
\* lengths that differ are: one short, exact, and longer.
WindowLengths == {RequiredCandles - 1, RequiredCandles, RequiredCandles + 1}
Window(n, last) == [i \in 1..n |-> IF i = n THEN last ELSE 100]
Windows == {Window(n, p) : n \in WindowLengths, p \in Prices}

\* EMA.calculate({period, values}) returns Len(values) - period + 1 values
\* (none when values is shorter than period).  tick() reads only .at(-2) and
\* .at(-1) of the result, so a result is represented by that trailing pair;
\* at() yields undefined past the start of the array.
EmaLen(period, n) == Max(0, n - period + 1)
EmaTails(period, n, tails) ==
    {<<IF EmaLen(period, n) >= 2 THEN tl[1] ELSE Undefined,
       IF EmaLen(period, n) >= 1 THEN tl[2] ELSE Undefined>> : tl \in tails}
\* Trailing pairs of the four series: the fast line rises through the slow
\* one, falls through it, or stays above it.
EntryFastTails == {<<95, 99>>, <<99, 95>>, <<99, 99>>}
EntrySlowTails == {<<97, 97>>}
ExitFastTails == {<<94, 98>>, <<98, 94>>, <<98, 98>>}
ExitSlowTails == {<<96, 96>>}

(* ------------------------------ state --------------------------------- *)
VARIABLES
    DRY_RUN,        \* configuration: no-persistence mode
    boot,           \* position of bootstrap(): "connect", "restore", "listening", "crashed"
    isTickRunning,  \* the non-reentrancy guard
    openPosition,   \* the in-memory position cache (NoPosition when null)
    cached,         \* the cached snapshot
    positionsCol,   \* the positions collection, in createdAt order
    pc,             \* per invocation slot: "idle", "fetch", "insert", "update"
    frame,          \* per invocation slot: the locals of the suspended tick()
    acct,           \* per invocation slot: effects of the invocation so far
    ev              \* the last step taken

vars == <<DRY_RUN, boot, isTickRunning, openPosition, cached, positionsCol,
          pc, frame, acct, ev>>

NoPosition == [null |-> TRUE]

\* let cached = { price: null, ..., entrySignal: "NONE", ..., lastTickAt: null }
InitialCached ==
    [price |-> JsNull, emaEntryFast |-> JsNull, emaEntrySlow |-> JsNull,
     emaExitFast |-> JsNull, emaExitSlow |-> JsNull,
     entrySignal |-> "NONE", exitSignal |-> "NONE", lastTickAt |-> JsNull]

\* The locals a suspended tick() resumes with: the trade calls it still has
\* to make (the first one is in flight), the _id and the profit closeTrade
\* computed before its await, and whether the log line can be formatted.
NoFrame == [todo |-> <<>>, target |-> JsNull, pnl |-> 0, loggable |-> TRUE]

\* The record of a step: the operation, its outcome, the invocation slot
\* (0: none), whether a tick() invocation returned and whether it threw, and
\* the inputs the step consumed (the length of the price window, its last
\* price, the four last EMA values, the clock reading).
NoInput == [n |-> JsNull, last |-> JsNull, emas |-> <<>>, at |-> JsNull]
Step(op, res, inv, ret, threw, in) ==
    [op |-> op, res |-> res, inv |-> inv, ret |-> ret, threw |-> threw,
     n |-> in.n, last |-> in.last, emas |-> in.emas, at |-> in.at]
\* A step that is no return of a tick() invocation and consumes no input.
Event(op, res, inv) == Step(op, res, inv, FALSE, FALSE, NoInput)

NoAcct == [writes |-> 0, inserts |-> 0, updates |-> 0, snaps |-> 0]

(* ------------------------------ utils --------------------------------- *)
\* JavaScript < on numbers, false when either operand is undefined (NaN).
Lt(a, b) == a # Undefined /\ b # Undefined /\ a < b

\* Mutant: the comparisons are <= and >=.
detectCrossNonStrict(prevFast, prevSlow, fast, slow) ==
    IF Undefined \in {prevFast, prevSlow, fast, slow} THEN "NONE"
    ELSE IF prevFast <= prevSlow /\ fast >= slow THEN "GOLDEN"
    ELSE IF prevFast >= prevSlow /\ fast <= slow THEN "DEATH"
    ELSE "NONE"

detectCross(prevFast, prevSlow, fast, slow) ==
    IF Lt(prevFast, prevSlow) /\ Lt(slow, fast) THEN "GOLDEN"
    ELSE IF Lt(prevSlow, prevFast) /\ Lt(fast, slow) THEN "DEATH"
    ELSE "NONE"

(* --------------------------- the collection --------------------------- *)
\* A document of the positions collection.  Exit fields are JsNull until
\* the position is closed.
Doc(id, symbol, status, positionType, entryPrice, emaFast, emaSlow) ==
    [id |-> id, symbol |-> symbol, status |-> status, qty |-> QTY,
     positionType |-> positionType, entryPrice |-> entryPrice,
     entryEMAfast |-> emaFast, entryEMAslow |-> emaSlow,
     exitPrice |-> JsNull, exitEMAfast |-> JsNull, exitEMAslow |-> JsNull,
     profitLoss |-> JsNull]

OpenDocs(col, symbol) ==
    {k \in 1..Len(col) : col[k].symbol = symbol /\ col[k].status = "OPEN"}

\* The collections the process can find at startup: what earlier runs of
\* the bot (for this or another instrument) can have left behind.
InitialCollections ==
    { <<>>,
      <<Doc(1, SYMBOL, "OPEN", "LONG", 100, 99, 97)>>,
      <<Doc(1, SYMBOL, "OPEN", "SHORT", 90, 95, 97)>>,
      <<Doc(1, OTHER_SYMBOL, "OPEN", "LONG", 100, 99, 97)>>,
      <<[Doc(1, SYMBOL, "CLOSED", "LONG", 100, 99, 97) EXCEPT
            !.exitPrice = 90, !.exitEMAfast = 94, !.exitEMAslow = 96,
            !.profitLoss = -10]>> }

(* ------------------------------- Init --------------------------------- *)
\* Module load: the state declarations (lines 87-98) and the synchronous
\* prefix of bootstrap(): with DRY_RUN the server listens at once, otherwise
\* bootstrap is suspended in connectMongo().
Init ==
    /\ DRY_RUN \in BOOLEAN
    /\ boot = IF DRY_RUN THEN "listening" ELSE "connect"
    /\ isTickRunning = FALSE
    /\ openPosition = NoPosition
    /\ cached = InitialCached
    /\ positionsCol \in InitialCollections
    /\ pc = [i \in Slots |-> "idle"]
    /\ frame = [i \in Slots |-> NoFrame]
    /\ acct = [i \in Slots |-> NoAcct]
    /\ ev = Event("load", "ok", 0)

(* ----------------------------- bootstrap ------------------------------ *)
\* await connectMongo() resolves.
ConnectOk ==
    /\ boot = "connect"
    /\ boot' = "restore"
    /\ ev' = Event("connect", "ok", 0)
    /\ UNCHANGED <<DRY_RUN, isTickRunning, openPosition, cached, positionsCol,
                   pc, frame, acct>>

\* connectMongo() or the reconciliation query rejects: bootstrap() rejects
\* before app.listen and before the timer is armed.
BootFail ==
    /\ boot \in {"connect", "restore"}
    /\ boot' = "crashed"
    /\ ev' = Event(boot, "fail", 0)
    /\ UNCHANGED <<DRY_RUN, isTickRunning, openPosition, cached, positionsCol,
                   pc, frame, acct>>

\* find({symbol: SYMBOL, status: "OPEN"}).sort({createdAt: -1}).limit(1):
\* the indices of the documents the query can return (none: the empty set).
MostRecentOpen(col) ==
    {k \in OpenDocs(col, SYMBOL) : \A j \in OpenDocs(col, SYMBOL) : j <= k}

\* The cache entry made from a stored document.
Cache(doc) ==
    [id |-> doc.id, symbol |-> doc.symbol, status |-> doc.status,
     qty |-> doc.qty, positionType |-> doc.positionType,
     entryPrice |-> doc.entryPrice, entryEMAfast |-> doc.entryEMAfast,
     entryEMAslow |-> doc.entryEMAslow]

\* restoreOpenPosition(): openPosition = doc[0] || null, then bootstrap
\* continues synchronously to app.listen and arms the timer.
restoreOpenPosition ==
    /\ boot = "restore"
    /\ boot' = "listening"
    /\ IF MostRecentOpen(positionsCol) = {}
         THEN openPosition' = NoPosition
         ELSE \E k \in MostRecentOpen(positionsCol) :
                 openPosition' = Cache(positionsCol[k])
    /\ ev' = Event("restore", "ok", 0)
    /\ UNCHANGED <<DRY_RUN, isTickRunning, cached, positionsCol, pc, frame, acct>>

\* The process is stopped (SIGINT handler) and started again: all in-memory
\* state is lost, the collection stays.
Restart ==
    /\ boot' = IF DRY_RUN THEN "listening" ELSE "connect"
    /\ isTickRunning' = FALSE
    /\ openPosition' = NoPosition
    /\ cached' = InitialCached
    /\ pc' = [i \in Slots |-> "idle"]
    /\ frame' = [i \in Slots |-> NoFrame]
    /\ acct' = [i \in Slots |-> NoAcct]
    /\ ev' = Event("restart", "ok", 0)
    /\ UNCHANGED <<DRY_RUN, positionsCol>>

(* ------------------------------ tick() -------------------------------- *)
Triggers == {"timer", "api_tick", "api_price"}

\* new Date() / Date.now(): the wall clock never runs behind a timestamp
\* the process took earlier.
Now == {t \in Times : cached.lastTickAt = JsNull \/ t >= cached.lastTickAt}
DateNow == {t \in Readings : cached.lastTickAt = JsNull \/ t >= cached.lastTickAt}

\* /api/price: !cached.lastTickAt || Date.now() - lastTickAt > 70_000
Stale(t) == cached.lastTickAt = JsNull \/ t - cached.lastTickAt > STALE_MS

\* Mutant: the guard is never consulted.
GuardIgnored == FALSE

\* if (isTickRunning) return;
GuardHeld == isTickRunning

\* Mutant: no catch clause, an error leaves tick() as a rejection.
TickRethrows == FALSE

\* catch (err) { console.error(...) }: the handler swallows every error
\* thrown inside the try block.
TickCatches == TRUE

\* The slot a new invocation's frame is kept in.
FreeSlot == {i \in Slots : pc[i] = "idle" /\ \A j \in Slots : pc[j] = "idle" => i <= j}

\* Mutant: the guard test sits inside the try block, so that the dropped
\* invocation runs the finally clause and releases the running tick's guard.
DroppedInsideTry(trigger) ==
    /\ isTickRunning' = FALSE
    /\ ev' = Step("tick", "dropped", 0, TRUE, FALSE, NoInput)
    /\ UNCHANGED <<DRY_RUN, boot, openPosition, cached, positionsCol, pc,
                   frame, acct>>

\* The invocation finds the guard held and returns at line 196, before the
\* try block: nothing runs, not even the finally clause.
Dropped(trigger) ==
    /\ ev' = Step("tick", "dropped", 0, TRUE, FALSE, NoInput)
    /\ UNCHANGED <<DRY_RUN, boot, isTickRunning, openPosition, cached,
                   positionsCol, pc, frame, acct>>

\* The invocation takes the guard and suspends in fetchCloses().
Started(trigger, i) ==
    /\ isTickRunning' = TRUE
    /\ pc' = [pc EXCEPT ![i] = "fetch"]
    /\ frame' = [frame EXCEPT ![i] = NoFrame]
    /\ acct' = [acct EXCEPT ![i] = NoAcct]
    /\ ev' = Event("tick", "started", i)
    /\ UNCHANGED <<DRY_RUN, boot, openPosition, cached, positionsCol>>

\* Mutant: the server listens and the timer is armed before reconciliation.
TickCallBeforeRestore(trigger) ==
    /\ boot \in {"restore", "listening"}
    /\ trigger = "api_price" => \E t \in DateNow : Stale(t)
    /\ IF GuardHeld
         THEN Dropped(trigger)
         ELSE \E i \in FreeSlot : Started(trigger, i)

\* tick() is called: by the timer (setTimeout / setInterval), by /api/tick,
\* or by /api/price when the snapshot is stale.  The server listens and the
\* timer is armed only once bootstrap has passed reconciliation.
TickCall(trigger) ==
    /\ boot = "listening"
    /\ trigger = "api_price" => \E t \in DateNow : Stale(t)
    /\ IF GuardHeld
         THEN Dropped(trigger)
         ELSE \E i \in FreeSlot : Started(trigger, i)

\* Mutant: no finally clause, the guard stays set.
FinishKeepsGuard(i, op, res, failed, in) ==
    /\ UNCHANGED isTickRunning
    /\ pc' = [pc EXCEPT ![i] = "idle"]
    /\ frame' = [frame EXCEPT ![i] = NoFrame]
    /\ ev' = Step(op, res, i, TRUE, failed, in)

\* The invocation in slot i leaves tick(): the catch clause when an error
\* was thrown, then finally { isTickRunning = false }.
Finish(i, op, res, failed, in) ==
    /\ isTickRunning' = FALSE
    /\ pc' = [pc EXCEPT ![i] = "idle"]
    /\ frame' = [frame EXCEPT ![i] = NoFrame]
    /\ ev' = Step(op, res, i, TRUE, failed /\ ~TickCatches, in)

\* Mutant: the error path resets the snapshot.
FetchFailResetsSnapshot(i) ==
    /\ pc[i] = "fetch"
    /\ Finish(i, "fetch", "fail", TRUE, NoInput)
    /\ cached' = InitialCached
    /\ UNCHANGED <<DRY_RUN, boot, openPosition, positionsCol, acct>>

\* fetchCloses() rejects: transport error, timeout (12 s), malformed body.
FetchFail(i) ==
    /\ pc[i] = "fetch"
    /\ Finish(i, "fetch", "fail", TRUE, NoInput)
    /\ UNCHANGED <<DRY_RUN, boot, openPosition, cached, positionsCol, acct>>

(* --------------------------- trade decision --------------------------- *)
OpenOp(positionType, price, emaFast, emaSlow) ==
    [op |-> "open", positionType |-> positionType, price |-> price,
     emaFast |-> emaFast, emaSlow |-> emaSlow]

CloseOp(price, emaFast, emaSlow) ==
    [op |-> "close", positionType |-> "-", price |-> price,
     emaFast |-> emaFast, emaSlow |-> emaSlow]

\* Mutant: the entry signal is acted on whether or not a position is open.
DecidePyramiding(pos, entrySignal, exitSignal, price, fastEntry, slowEntry, fastExit, slowExit) ==
    IF entrySignal = "GOLDEN"
      THEN <<OpenOp("LONG", price, fastEntry, slowEntry)>>
    ELSE IF entrySignal = "DEATH"
      THEN <<OpenOp("SHORT", price, fastEntry, slowEntry)>>
    ELSE IF pos # NoPosition /\ exitSignal = "GOLDEN" /\ pos.positionType = "SHORT"
      THEN <<CloseOp(price, fastExit, slowExit)>>
    ELSE IF pos # NoPosition /\ exitSignal = "DEATH" /\ pos.positionType = "LONG"
      THEN <<CloseOp(price, fastExit, slowExit)>>
    ELSE <<>>

\* Mutant: a DEATH entry signal opens nothing.
DecideLongOnly(pos, entrySignal, exitSignal, price, fastEntry, slowEntry, fastExit, slowExit) ==
    IF pos = NoPosition
      THEN IF entrySignal = "GOLDEN"
             THEN <<OpenOp("LONG", price, fastEntry, slowEntry)>>
             ELSE <<>>
      ELSE IF exitSignal = "GOLDEN" /\ pos.positionType = "SHORT"
             THEN <<CloseOp(price, fastExit, slowExit)>>
           ELSE IF exitSignal = "DEATH" /\ pos.positionType = "LONG"
             THEN <<CloseOp(price, fastExit, slowExit)>>
           ELSE <<>>

\* Mutant: any exit cross closes the position, whatever its side.
DecideExitAnySide(pos, entrySignal, exitSignal, price, fastEntry, slowEntry, fastExit, slowExit) ==
    IF pos = NoPosition
      THEN IF entrySignal = "GOLDEN"
             THEN <<OpenOp("LONG", price, fastEntry, slowEntry)>>
           ELSE IF entrySignal = "DEATH"
             THEN <<OpenOp("SHORT", price, fastEntry, slowEntry)>>
           ELSE <<>>
      ELSE IF exitSignal # "NONE"
             THEN <<CloseOp(price, fastExit, slowExit)>>
             ELSE <<>>

\* Mutant: the EXIT logic is followed by the ENTRY logic in the same tick
\* (reversal: close, then open on the entry signal).
DecideReversal(pos, entrySignal, exitSignal, price, fastEntry, slowEntry, fastExit, slowExit) ==
    LET entry == IF entrySignal = "GOLDEN"
                   THEN <<OpenOp("LONG", price, fastEntry, slowEntry)>>
                 ELSE IF entrySignal = "DEATH"
                   THEN <<OpenOp("SHORT", price, fastEntry, slowEntry)>>
                 ELSE <<>>
    IN IF pos = NoPosition THEN entry
       ELSE IF \/ exitSignal = "GOLDEN" /\ pos.positionType = "SHORT"
               \/ exitSignal = "DEATH" /\ pos.positionType = "LONG"
         THEN <<CloseOp(price, fastExit, slowExit)>> \o entry
         ELSE <<>>

\* ENTRY logic / EXIT logic of tick(): the trade calls one tick makes, in
\* order, against the position cache.
Decide(pos, entrySignal, exitSignal, price, fastEntry, slowEntry, fastExit, slowExit) ==
    IF pos = NoPosition
      THEN IF entrySignal = "GOLDEN"
             THEN <<OpenOp("LONG", price, fastEntry, slowEntry)>>
           ELSE IF entrySignal = "DEATH"
             THEN <<OpenOp("SHORT", price, fastEntry, slowEntry)>>
           ELSE <<>>
      ELSE IF exitSignal = "GOLDEN" /\ pos.positionType = "SHORT"
             THEN <<CloseOp(price, fastExit, slowExit)>>
           ELSE IF exitSignal = "DEATH" /\ pos.positionType = "LONG"
             THEN <<CloseOp(price, fastExit, slowExit)>>
           ELSE <<>>

\* Mutant: the snapshot keeps the price of the previous tick.
SnapshotKeepsPrice(price, fastEntry, slowEntry, fastExit, slowExit, entrySignal, exitSignal, t) ==
    [price |-> cached.price, emaEntryFast |-> fastEntry, emaEntrySlow |-> slowEntry,
     emaExitFast |-> fastExit, emaExitSlow |-> slowExit,
     entrySignal |-> entrySignal, exitSignal |-> exitSignal, lastTickAt |-> t]

\* cached = { price, emaEntryFast, ..., entrySignal, exitSignal, lastTickAt }
Snapshot(price, fastEntry, slowEntry, fastExit, slowExit, entrySignal, exitSignal, t) ==
    [price |-> price, emaEntryFast |-> fastEntry, emaEntrySlow |-> slowEntry,
     emaExitFast |-> fastExit, emaExitSlow |-> slowExit,
     entrySignal |-> entrySignal, exitSignal |-> exitSignal, lastTickAt |-> t]

(* ----------------------------- trade ops ------------------------------ *)
\* openTrade: const base = { symbol, status: "OPEN", qty: 1, positionType,
\* entryPrice: price, entryEMAfast: emaFast, entryEMAslow: emaSlow, ... }
Base(id, o) == Doc(id, SYMBOL, "OPEN", o.positionType, o.price, o.emaFast, o.emaSlow)

\* Mutant: the LONG formula whatever the side.
PnLSideBlind(pos, price) ==
    (price - pos.entryPrice) * (IF pos.qty = 0 THEN 1 ELSE pos.qty)

\* closeTrade: qty = openPosition.qty || 1; pnl = (isLong ? price - entryPrice
\* : entryPrice - price) * qty
PnL(pos, price) ==
    (IF pos.positionType = "LONG" THEN price - pos.entryPrice
                                  ELSE pos.entryPrice - price)
        * (IF pos.qty = 0 THEN 1 ELSE pos.qty)

\* The $set of closeTrade's findOneAndUpdate.
Closed(doc, o, pnl) ==
    [doc EXCEPT !.status = "CLOSED", !.exitPrice = o.price,
                !.exitEMAfast = o.emaFast, !.exitEMAslow = o.emaSlow,
                !.profitLoss = pnl]

\* Mutant: the filter names the _id alone.
MatchingAnyStatus(col, id) == {k \in 1..Len(col) : col[k].id = id}

\* The filter { _id: openPosition._id, status: "OPEN" }.
Matching(col, id) == {k \in 1..Len(col) : col[k].id = id /\ col[k].status = "OPEN"}

\* DRY_RUN: openTrade and closeTrade return without awaiting; the trade
\* calls act on the cache alone.
RECURSIVE DryApply(_, _)
DryApply(pos, todo) ==
    IF todo = <<>> THEN pos
    ELSE IF Head(todo).op = "open"
      THEN DryApply(Cache(Base(DRYRUN_ID, Head(todo))), Tail(todo))
      ELSE DryApply(NoPosition, Tail(todo))

\* closeTrade: if (!openPosition) return;  -- such a call awaits nothing.
RECURSIVE Pending(_, _)
Pending(pos, todo) ==
    IF todo = <<>> THEN <<>>
    ELSE IF Head(todo).op = "close" /\ pos = NoPosition
      THEN Pending(pos, Tail(todo))
      ELSE todo

\* Mutant: openTrade and closeTrade have no DRY_RUN branch.
ContinuePersistsAlways(i, pos, todo, ac, loggable, op, res, in) ==
    LET pend == Pending(pos, todo) IN
    /\ openPosition' = pos
    /\ IF pend = <<>>
         THEN /\ acct' = [acct EXCEPT ![i] = ac]
              /\ Finish(i, op, res, ~loggable, in)
         ELSE /\ pc' = [pc EXCEPT ![i] =
                          IF Head(pend).op = "open" THEN "insert" ELSE "update"]
              /\ frame' = [frame EXCEPT ![i] =
                   [todo |-> pend,
                    target |-> IF Head(pend).op = "close" THEN pos.id ELSE JsNull,
                    pnl |-> IF Head(pend).op = "close"
                              THEN PnL(pos, Head(pend).price) ELSE 0,
                    loggable |-> loggable]]
              /\ acct' = [acct EXCEPT ![i] =
                   IF Head(pend).op = "open"
                     THEN [ac EXCEPT !.inserts = @ + 1]
                     ELSE [ac EXCEPT !.updates = @ + 1]]
              /\ ev' = Step(op, res, i, FALSE, FALSE, in)
              /\ UNCHANGED isTickRunning

\* tick() goes on after a run-to-completion segment in which the cache became
\* pos and the trade calls todo are still to be made: it suspends in the next
\* storage call, or reaches the log line and returns.
Continue(i, pos, todo, ac, loggable, op, res, in) ==
    IF DRY_RUN
      THEN /\ openPosition' = DryApply(pos, todo)
           /\ acct' = [acct EXCEPT ![i] = ac]
           /\ Finish(i, op, res, ~loggable, in)
      ELSE LET pend == Pending(pos, todo) IN
           /\ openPosition' = pos
           /\ IF pend = <<>>
                THEN /\ acct' = [acct EXCEPT ![i] = ac]
                     /\ Finish(i, op, res, ~loggable, in)
                ELSE /\ pc' = [pc EXCEPT ![i] =
                                 IF Head(pend).op = "open" THEN "insert" ELSE "update"]
                     /\ frame' = [frame EXCEPT ![i] =
                          [todo |-> pend,
                           target |-> IF Head(pend).op = "close" THEN pos.id ELSE JsNull,
                           pnl |-> IF Head(pend).op = "close"
                                     THEN PnL(pos, Head(pend).price) ELSE 0,
                           loggable |-> loggable]]
                     /\ acct' = [acct EXCEPT ![i] =
                          IF Head(pend).op = "open"
                            THEN [ac EXCEPT !.inserts = @ + 1]
                            ELSE [ac EXCEPT !.updates = @ + 1]]
                     /\ ev' = Step(op, res, i, FALSE, FALSE, in)
                     /\ UNCHANGED isTickRunning

\* await fetchCloses() resolves with a window: the length check, the four
\* EMA series, both signals, the snapshot and the ENTRY/EXIT logic up to the
\* next await.
FetchOk(i) ==
    /\ pc[i] = "fetch"
    /\ \E closes \in Windows :
         IF Len(closes) < RequiredCandles
           THEN /\ Finish(i, "fetch", "insufficient", FALSE,
                           [NoInput EXCEPT !.n = Len(closes)])
                /\ UNCHANGED <<openPosition, cached, acct>>
           ELSE \E ef \in EmaTails(EMA_ENTRY_FAST, Len(closes), EntryFastTails),
                   es \in EmaTails(EMA_ENTRY_SLOW, Len(closes), EntrySlowTails),
                   xf \in EmaTails(EMA_EXIT_FAST, Len(closes), ExitFastTails),
                   xs \in EmaTails(EMA_EXIT_SLOW, Len(closes), ExitSlowTails),
                   t \in Now :
                LET price == closes[Len(closes)]
                    entrySignal == detectCross(ef[1], es[1], ef[2], es[2])
                    exitSignal == detectCross(xf[1], xs[1], xf[2], xs[2])
                    todo == Decide(openPosition, entrySignal, exitSignal, price,
                                   ef[2], es[2], xf[2], xs[2])
                    loggable == Undefined \notin {ef[2], es[2], xf[2], xs[2]}
                IN /\ cached' = Snapshot(price, ef[2], es[2], xf[2], xs[2],
                                         entrySignal, exitSignal, t)
                   /\ Continue(i, openPosition, todo,
                               [acct[i] EXCEPT !.snaps = @ + 1], loggable,
                               "fetch", "ok",
                               [n |-> Len(closes), last |-> closes[Len(closes)],
                                emas |-> <<ef[2], es[2], xf[2], xs[2]>>,
                                at |-> t])
    /\ UNCHANGED <<DRY_RUN, boot, positionsCol>>

\* The window suffices but EMA.calculate throws.
ComputeFail(i) ==
    /\ pc[i] = "fetch"
    /\ \E closes \in Windows : Len(closes) >= RequiredCandles
    /\ Finish(i, "fetch", "compute_fail", TRUE, NoInput)
    /\ UNCHANGED <<DRY_RUN, boot, openPosition, cached, positionsCol, acct>>

\* await positionsCol.insertOne(base) resolves: the document is stored and
\* openPosition = { _id: insertedId, ...base }.
InsertOk(i) ==
    /\ pc[i] = "insert"
    /\ Len(positionsCol) < MaxStore
    /\ LET doc == Base(Len(positionsCol) + 1, Head(frame[i].todo)) IN
         /\ positionsCol' = Append(positionsCol, doc)
         /\ Continue(i, Cache(doc), Tail(frame[i].todo),
                     [acct[i] EXCEPT !.writes = @ + 1], frame[i].loggable,
                     "insert", "ok", NoInput)
    /\ UNCHANGED <<DRY_RUN, boot, cached>>

\* insertOne rejects, nothing is stored: the error leaves openTrade before
\* the cache is assigned and is caught by tick().
InsertFail(i) ==
    /\ pc[i] = "insert"
    /\ Finish(i, "insert", "fail", TRUE, NoInput)
    /\ UNCHANGED <<DRY_RUN, boot, openPosition, cached, positionsCol, acct>>

\* Mutant: the cache is cleared only when a document was matched.
UpdateOkKeepsCacheOnConflict(i) ==
    /\ pc[i] = "update"
    /\ LET hit == Matching(positionsCol, frame[i].target)
           o == Head(frame[i].todo)
       IN /\ positionsCol' =
                [k \in 1..Len(positionsCol) |->
                    IF k \in hit THEN Closed(positionsCol[k], o, frame[i].pnl)
                                 ELSE positionsCol[k]]
          /\ Continue(i, IF hit = {} THEN openPosition ELSE NoPosition,
                      Tail(frame[i].todo),
                      IF hit = {} THEN acct[i]
                                  ELSE [acct[i] EXCEPT !.writes = @ + 1],
                      frame[i].loggable, "update",
                      IF hit = {} THEN "conflict" ELSE "ok", NoInput)
    /\ UNCHANGED <<DRY_RUN, boot, cached>>

\* await positionsCol.findOneAndUpdate(...) resolves: the matching document,
\* if there is one, is closed; then openPosition = null in either case.
UpdateOk(i) ==
    /\ pc[i] = "update"
    /\ LET hit == Matching(positionsCol, frame[i].target)
           o == Head(frame[i].todo)
       IN /\ positionsCol' =
                [k \in 1..Len(positionsCol) |->
                    IF k \in hit THEN Closed(positionsCol[k], o, frame[i].pnl)
                                 ELSE positionsCol[k]]
          /\ Continue(i, NoPosition, Tail(frame[i].todo),
                      IF hit = {} THEN acct[i]
                                  ELSE [acct[i] EXCEPT !.writes = @ + 1],
                      frame[i].loggable, "update",
                      IF hit = {} THEN "conflict" ELSE "ok", NoInput)
    /\ UNCHANGED <<DRY_RUN, boot, cached>>

\* Mutant: the cache is cleared before the update is awaited.
UpdateFailClearsCache(i) ==
    /\ pc[i] = "update"
    /\ Finish(i, "update", "fail", TRUE, NoInput)
    /\ openPosition' = NoPosition
    /\ UNCHANGED <<DRY_RUN, boot, cached, positionsCol, acct>>

\* findOneAndUpdate rejects, nothing is written: the error leaves closeTrade
\* before the cache is cleared and is caught by tick().
UpdateFail(i) ==
    /\ pc[i] = "update"
    /\ Finish(i, "update", "fail", TRUE, NoInput)
    /\ UNCHANGED <<DRY_RUN, boot, openPosition, cached, positionsCol, acct>>

(* --------------------------- specification ---------------------------- *)
IoComplete(i) ==
    \/ FetchOk(i)
    \/ FetchFail(i)
    \/ ComputeFail(i)
    \/ InsertOk(i)
    \/ InsertFail(i)
    \/ UpdateOk(i)
    \/ UpdateFail(i)

Next ==
    \/ ConnectOk
    \/ BootFail
    \/ restoreOpenPosition
    \/ Restart
    \/ \E trigger \in Triggers : TickCall(trigger)
    \/ \E i \in Slots : FetchOk(i)
    \/ \E i \in Slots : FetchFail(i)
    \/ \E i \in Slots : ComputeFail(i)
    \/ \E i \in Slots : InsertOk(i)
    \/ \E i \in Slots : InsertFail(i)
    \/ \E i \in Slots : UpdateOk(i)
    \/ \E i \in Slots : UpdateFail(i)

Spec == Init /\ [][Next]_vars

\* Every awaited I/O operation (price fetch, insert, conditional update)
\* eventually resolves or rejects: none stays pending forever.  The
\* condition is stated on the rejecting outcome, which is enabled exactly
\* while an operation is pending (the fetch carries a 12 s timeout) and
\* which a resolution of the last operation of a tick disables.
IoRejects == \E i \in Slots : FetchFail(i) \/ InsertFail(i) \/ UpdateFail(i)

LiveSpec == Spec /\ WF_vars(IoRejects)

(* ------------------- closeTrade called on its own -------------------- *)
\* tick() calls closeTrade only with a position cached (lines 246-252), so
\* the first statement of closeTrade never returns early inside a tick.  This
\* specification calls closeTrade directly, as any other caller could, in the
\* states bootstrap leaves behind and in the states earlier calls lead to.
CloseOps == {CloseOp(p, xf[2], xs[2]) : p \in Prices, xf \in ExitFastTails, xs \in ExitSlowTails}

\* The positions a DRY_RUN process can hold: openTrade's { _id: "dryrun", ...base }.
DryPositions ==
    {Cache(Base(DRYRUN_ID, OpenOp(side, p, 99, 97))) : side \in {"LONG", "SHORT"}, p \in Prices}

\* The process listens, no tick is in flight; the cache is what
\* restoreOpenPosition() made of the collection (DRY_RUN: any held position).
CloseInit ==
    /\ DRY_RUN \in BOOLEAN
    /\ boot = "listening"
    /\ isTickRunning = FALSE
    /\ positionsCol \in InitialCollections
    /\ openPosition \in
          IF DRY_RUN THEN {NoPosition} \cup DryPositions
          ELSE IF MostRecentOpen(positionsCol) = {} THEN {NoPosition}
          ELSE {Cache(positionsCol[k]) : k \in MostRecentOpen(positionsCol)}
    /\ cached = InitialCached
    /\ pc = [i \in Slots |-> "idle"]
    /\ frame = [i \in Slots |-> NoFrame]
    /\ acct = [i \in Slots |-> NoAcct]
    /\ ev = Event("load", "ok", 0)

\* Mutant: no early return; with nothing cached the update is issued with an
\* _id that matches no document.
closeTradeUnguarded(i, o) ==
    /\ boot = "listening" /\ ~isTickRunning
    /\ i \in FreeSlot
    /\ IF DRY_RUN
         THEN /\ openPosition' = NoPosition
              /\ ev' = Step("close", "called", i, TRUE, FALSE, NoInput)
              /\ UNCHANGED <<isTickRunning, pc, frame, acct>>
         ELSE /\ pc' = [pc EXCEPT ![i] = "update"]
              /\ frame' = [frame EXCEPT ![i] =
                    [todo |-> <<o>>,
                     target |-> IF openPosition = NoPosition THEN JsNull
                                ELSE openPosition.id,
                     pnl |-> IF openPosition = NoPosition THEN 0
                             ELSE PnL(openPosition, o.price),
                     loggable |-> TRUE]]
              /\ acct' = [acct EXCEPT ![i] = [NoAcct EXCEPT !.updates = 1]]
              /\ ev' = Step("close", "called", i, FALSE, FALSE, NoInput)
              /\ UNCHANGED <<isTickRunning, openPosition>>
    /\ UNCHANGED <<DRY_RUN, boot, cached, positionsCol>>

\* A direct call of closeTrade leaves the function: the promise resolves, or
\* rejects with the storage error (closeTrade has no try/catch of its own;
\* only tick() catches).  The guard is tick()'s and is not touched.
Return(i, op, res, threw) ==
    /\ pc' = [pc EXCEPT ![i] = "idle"]
    /\ frame' = [frame EXCEPT ![i] = NoFrame]
    /\ ev' = Step(op, res, i, TRUE, threw, NoInput)
    /\ UNCHANGED isTickRunning

\* closeTrade(o) up to its await or its return: if (!openPosition) return;
\* otherwise the DRY_RUN branch or the suspension in findOneAndUpdate.
closeTrade(i, o) ==
    /\ boot = "listening" /\ ~isTickRunning
    /\ i \in FreeSlot
    /\ IF openPosition = NoPosition
         THEN /\ ev' = Step("close", "noop", i, TRUE, FALSE, NoInput)
              /\ UNCHANGED <<isTickRunning, openPosition, pc, frame, acct>>
         ELSE IF DRY_RUN
           THEN /\ openPosition' = NoPosition
                /\ acct' = [acct EXCEPT ![i] = NoAcct]
                /\ Return(i, "close", "called", FALSE)
           ELSE /\ pc' = [pc EXCEPT ![i] = "update"]
                /\ frame' = [frame EXCEPT ![i] =
                      [todo |-> <<o>>, target |-> openPosition.id,
                       pnl |-> PnL(openPosition, o.price), loggable |-> TRUE]]
                /\ acct' = [acct EXCEPT ![i] = [NoAcct EXCEPT !.updates = 1]]
                /\ ev' = Step("close", "called", i, FALSE, FALSE, NoInput)
                /\ UNCHANGED <<isTickRunning, openPosition>>
    /\ UNCHANGED <<DRY_RUN, boot, cached, positionsCol>>

\* The findOneAndUpdate of a direct call resolves: the matching document, if
\* there is one, is closed, openPosition = null, and closeTrade resolves.
closeTradeResolves(i) ==
    /\ pc[i] = "update"
    /\ LET hit == Matching(positionsCol, frame[i].target)
           o == Head(frame[i].todo)
       IN /\ positionsCol' =
                [k \in 1..Len(positionsCol) |->
                    IF k \in hit THEN Closed(positionsCol[k], o, frame[i].pnl)
                                 ELSE positionsCol[k]]
          /\ acct' = [acct EXCEPT ![i] =
                        IF hit = {} THEN @ ELSE [@ EXCEPT !.writes = @ + 1]]
          /\ Return(i, "update", IF hit = {} THEN "conflict" ELSE "ok", FALSE)
    /\ openPosition' = NoPosition
    /\ UNCHANGED <<DRY_RUN, boot, cached>>

\* The findOneAndUpdate of a direct call rejects: nothing is written, the
\* cache is kept, and the rejection reaches the caller of closeTrade.
closeTradeRejects(i) ==
    /\ pc[i] = "update"
    /\ Return(i, "update", "fail", TRUE)
    /\ UNCHANGED <<DRY_RUN, boot, openPosition, cached, positionsCol, acct>>

CloseNext ==
    \/ \E i \in Slots, o \in CloseOps : closeTrade(i, o)
    \/ \E i \in Slots : closeTradeResolves(i)
    \/ \E i \in Slots : closeTradeRejects(i)

CloseSpec == CloseInit /\ [][CloseNext]_vars

(* ------------------------ a shared collection ------------------------- *)
\* The collection lives in a database other clients can write to (a second
\* instance of the bot, an operator).  closeTrade provides for it: its filter
\* asks for status OPEN and its else branch (lines 188-190) handles the record
\* that matches no longer.  To that filter a removed record and a closed one
\* are the same: neither matches.
\* Another client closes the instrument's OPEN record.
ExternalClose ==
    /\ \E k \in OpenDocs(positionsCol, SYMBOL) :
          positionsCol' =
            [positionsCol EXCEPT ![k] =
                Closed(@, CloseOp(90, 94, 96), PnL(Cache(@), 90))]
    /\ ev' = Event("external", "close", 0)
    /\ UNCHANGED <<DRY_RUN, boot, isTickRunning, openPosition, cached, pc,
                   frame, acct>>

SharedNext ==
    \/ Next
    \/ ExternalClose

SharedSpec == Init /\ [][SharedNext]_vars

(* ---------------------- detectCross on its own ------------------------ *)
\* detectCross applied to every quadruple of EMA values of a small range,
\* equal values included; the step records arguments and result.
CrossValues == {96, 97, 98, 99}

detectCrossCall(prevFast, prevSlow, fast, slow) ==
    /\ ev' = Step("detectCross", detectCross(prevFast, prevSlow, fast, slow),
                  0, FALSE, FALSE,
                  [NoInput EXCEPT !.emas = <<prevFast, prevSlow, fast, slow>>])
    /\ UNCHANGED <<DRY_RUN, boot, isTickRunning, openPosition, cached,
                   positionsCol, pc, frame, acct>>

CrossNext ==
    \E prevFast \in CrossValues, prevSlow \in CrossValues,
       fast \in CrossValues, slow \in CrossValues :
        detectCrossCall(prevFast, prevSlow, fast, slow)

CrossSpec == Init /\ [][CrossNext]_vars

(* -------------------------- read endpoints ---------------------------- *)
\* GET /api/health, /api/price with a snapshot that is not stale,
\* /api/orders/history, /api/pnl/total and /api/positions/open.  The routes
\* are served once app.listen has run.  Each handler builds its response from
\* the cache, the snapshot or a query on the collection (answering 500 when
\* the query rejects) and assigns none of the program's variables.
ReadEndpoints == {"health", "price", "history", "pnl_total", "positions_open"}

\* Mutant: /api/price stamps the snapshot with the time it was served.
ReadStampsSnapshot(endpoint) ==
    /\ boot = "listening"
    /\ endpoint = "price" => \E t \in DateNow : ~Stale(t)
    /\ IF endpoint = "price"
         THEN \E t \in DateNow : cached' = [cached EXCEPT !.lastTickAt = t]
         ELSE UNCHANGED cached
    /\ ev' = Event("read", "ok", 0)
    /\ UNCHANGED <<DRY_RUN, boot, isTickRunning, openPosition, positionsCol,
                   pc, frame, acct>>

Read(endpoint) ==
    /\ boot = "listening"
    /\ endpoint = "price" => \E t \in DateNow : ~Stale(t)
    /\ ev' = Event("read", "ok", 0)
    /\ UNCHANGED <<DRY_RUN, boot, isTickRunning, openPosition, cached,
                   positionsCol, pc, frame, acct>>

ReadNext ==
    \/ Next
    \/ \E endpoint \in ReadEndpoints : Read(endpoint)

ReadSpec == Init /\ [][ReadNext]_vars

(* ------------------------------ claims -------------------------------- *)
Running == {i \in Slots : pc[i] # "idle"}
LastDoc == positionsCol[Len(positionsCol)]

\* C1: the collection never holds more than one OPEN position of the
\* instrument, whatever the interleaving of startup reconciliation, restarts,
\* tick triggers, fetch failures and storage failures.
C1_AtMostOneOpen == Cardinality(OpenDocs(positionsCol, SYMBOL)) <= 1

\* C1 witness: a position was closed and a tick then stored a new OPEN one.
C1_Witness ==
    /\ Len(positionsCol) = 2
    /\ positionsCol[1].symbol = SYMBOL /\ positionsCol[1].status = "CLOSED"
    /\ positionsCol[2].status = "OPEN"
    /\ ev.op = "insert" /\ ev.res = "ok"

\* C2: at most one tick() invocation is between taking the guard and
\* releasing it.
C2_OneTickBody == Cardinality(Running) <= 1

\* C2 witness: a trigger arrived while a tick was suspended in its
\* conditional update, and was turned away.
C2_Witness ==
    /\ \E i \in Slots : pc[i] = "update"
    /\ ev.op = "tick" /\ ev.res = "dropped"

\* C3: a tick() call made while the guard is held changes nothing (no
\* fetch, no write, cache, snapshot and guard as they were, no invocation
\* started or queued), and an insert completes only when the collection held
\* no OPEN position of the instrument: overlapping GOLDEN ticks insert once.
C3_DroppedStep ==
    /\ (isTickRunning /\ ev'.op = "tick") =>
          /\ ev'.res = "dropped" /\ ev'.ret
          /\ UNCHANGED <<isTickRunning, openPosition, cached, positionsCol,
                         pc, frame, acct>>
    /\ (ev'.op = "insert" /\ ev'.res = "ok" /\ positionsCol' # positionsCol) =>
          /\ OpenDocs(positionsCol, SYMBOL) = {}
          /\ Len(positionsCol') = Len(positionsCol) + 1
C3_DroppedTickIsNoOp == [][C3_DroppedStep]_vars

\* C3 witness: with no open position a GOLDEN tick is suspended in its
\* insert and a second trigger has just been dropped.
C3_Witness ==
    /\ ev.op = "tick" /\ ev.res = "dropped"
    /\ \E i \in Slots : pc[i] = "insert" /\ acct[i].inserts = 1
    /\ cached.entrySignal = "GOLDEN"
    /\ OpenDocs(positionsCol, SYMBOL) = {}

\* C4: a tick that took the guard releases it on every way out (done,
\* insufficient data, fetch failure, computation failure, storage failure
\* in open or close): the guard is held only while an invocation is in
\* flight, an invocation that leaves tick() leaves the guard free, and when
\* every awaited I/O operation completes a held guard is eventually free.
C4_ReleaseStep ==
    \A i \in Slots : (pc[i] # "idle" /\ pc'[i] = "idle") => ~isTickRunning'
C4_GuardReleased ==
    /\ [](isTickRunning <=> Running # {})
    /\ [][C4_ReleaseStep]_vars
    /\ (isTickRunning ~> ~isTickRunning)

\* C4 witness: a tick whose insert was rejected has left with the guard free.
C4_Witness ==
    /\ ev.op = "insert" /\ ev.res = "fail" /\ ev.ret
    /\ ~isTickRunning /\ Running = {}

\* C5: a tick whose fetch rejects (failure or timeout) or whose moving-
\* average computation throws leaves the position cache and the collection
\* as they were, returns without throwing, and leaves the guard free with no
\* invocation in flight, so that the next trigger starts a tick body.
C5_AbortStep ==
    (ev'.op = "fetch" /\ ev'.res \in {"fail", "compute_fail"}) =>
        /\ openPosition' = openPosition
        /\ positionsCol' = positionsCol
        /\ ev'.ret /\ ~ev'.threw
        /\ boot' = "listening" /\ ~isTickRunning'
        /\ \A i \in Slots : pc'[i] = "idle"
C5_FailedTickChangesNothing == [][C5_AbortStep]_vars

\* C5 witness: with a position cached as open, a tick's fetch was rejected.
C5_Witness ==
    /\ ev.op = "fetch" /\ ev.res = "fail"
    /\ openPosition # NoPosition
    /\ OpenDocs(positionsCol, SYMBOL) # {}

\* A tick in slot i gets a sufficient window, computes its signals and runs
\* up to its next await or its return.
FetchedOk(i) == pc[i] = "fetch" /\ ev'.op = "fetch" /\ ev'.res = "ok" /\ ev'.inv = i

SideOf(entrySignal) == IF entrySignal = "GOLDEN" THEN "LONG" ELSE "SHORT"

\* The position record the spec asks open() to make.
ExpectedOpen(id, side, price, emaFast, emaSlow) ==
    [id |-> id, symbol |-> SYMBOL, status |-> "OPEN", qty |-> 1,
     positionType |-> side, entryPrice |-> price,
     entryEMAfast |-> emaFast, entryEMAslow |-> emaSlow]

\* C6: in a tick that reaches the decision with no position cached, entry
\* GOLDEN opens a LONG, entry DEATH opens a SHORT and entry NONE does nothing,
\* whatever the exit signal; the opened position has the window's last price
\* as entry price, the entry pair's values as snapshot, quantity 1, status
\* OPEN, and the cache becomes that record.
C6_Step ==
    \A i \in Slots :
      /\ (FetchedOk(i) /\ openPosition = NoPosition) =>
            IF cached'.entrySignal = "NONE"
              THEN /\ openPosition' = NoPosition
                   /\ positionsCol' = positionsCol
                   /\ pc'[i] = "idle"
                   /\ acct'[i].inserts = 0 /\ acct'[i].updates = 0
            ELSE IF DRY_RUN
              THEN /\ openPosition' =
                        ExpectedOpen(DRYRUN_ID, SideOf(cached'.entrySignal),
                                     ev'.last, ev'.emas[1], ev'.emas[2])
                   /\ pc'[i] = "idle"
              ELSE /\ pc'[i] = "insert"
                   /\ acct'[i].inserts = 1 /\ acct'[i].updates = 0
                   /\ cached'.price = ev'.last
                   /\ cached'.emaEntryFast = ev'.emas[1]
                   /\ cached'.emaEntrySlow = ev'.emas[2]
      /\ (pc[i] = "insert" /\ ev'.op = "insert" /\ ev'.res = "ok") =>
            /\ cached.entrySignal \in {"GOLDEN", "DEATH"}
            /\ Len(positionsCol') = Len(positionsCol) + 1
            /\ SubSeq(positionsCol', 1, Len(positionsCol)) = positionsCol
            /\ openPosition' =
                  ExpectedOpen(Len(positionsCol'), SideOf(cached.entrySignal),
                               cached.price, cached.emaEntryFast, cached.emaEntrySlow)
            /\ \A f \in DOMAIN openPosition' :
                  positionsCol'[Len(positionsCol')][f] = openPosition'[f]
            /\ pc'[i] = "idle"
C6_EntryOpens == [][C6_Step]_vars

\* C6 witness: a tick with entry DEATH and exit GOLDEN found no position and
\* its SHORT has been stored and cached.
C6_Witness ==
    /\ ev.op = "insert" /\ ev.res = "ok"
    /\ openPosition # NoPosition /\ openPosition.positionType = "SHORT"
    /\ cached.entrySignal = "DEATH" /\ cached.exitSignal = "GOLDEN"
    /\ LastDoc.entryPrice = cached.price

\* C7: in a tick that reaches the decision with a position cached, a LONG is
\* closed iff the exit signal is DEATH and a SHORT iff it is GOLDEN; any
\* other combination leaves cache and collection as they were; the entry
\* signal opens, closes or reverses nothing while a position is cached.
C7_Step ==
    /\ \A i \in Slots :
         /\ (FetchedOk(i) /\ openPosition # NoPosition) =>
              IF \/ openPosition.positionType = "LONG" /\ cached'.exitSignal = "DEATH"
                 \/ openPosition.positionType = "SHORT" /\ cached'.exitSignal = "GOLDEN"
                THEN IF DRY_RUN
                       THEN openPosition' = NoPosition /\ pc'[i] = "idle"
                       ELSE /\ pc'[i] = "update"
                            /\ acct'[i].updates = 1 /\ acct'[i].inserts = 0
                            /\ frame'[i].target = openPosition.id
                            /\ openPosition' = openPosition
                            /\ positionsCol' = positionsCol
                ELSE /\ openPosition' = openPosition
                     /\ positionsCol' = positionsCol
                     /\ pc'[i] = "idle"
                     /\ acct'[i].inserts = 0 /\ acct'[i].updates = 0
         /\ (pc[i] = "update" /\ ev'.op = "update" /\ ev'.res = "ok") =>
              /\ openPosition' = NoPosition
              /\ \A k \in 1..Len(positionsCol) :
                   IF positionsCol[k].id = openPosition.id
                     THEN positionsCol'[k].status = "CLOSED"
                     ELSE positionsCol'[k] = positionsCol[k]
    /\ openPosition # NoPosition =>
         /\ openPosition' \in {openPosition, NoPosition}
         /\ Len(positionsCol') = Len(positionsCol)
C7_ExitCloses == [][C7_Step]_vars

\* C7 witness: a LONG is cached and a tick with entry DEATH and no exit
\* cross has returned leaving it in place.
C7_Witness ==
    /\ ev.op = "fetch" /\ ev.res = "ok" /\ ev.ret
    /\ openPosition # NoPosition /\ openPosition.positionType = "LONG"
    /\ cached.entrySignal = "DEATH" /\ cached.exitSignal = "NONE"

\* C8: one tick() invocation makes at most one storage call that writes (one
\* insert or one conditional update, never both) and changes the collection
\* at most once.
C8_OneTransitionPerTick ==
    \A i \in Slots :
        /\ acct[i].inserts + acct[i].updates <= 1
        /\ acct[i].writes <= 1

\* C8 witness: a tick that carried an entry signal closed the cached
\* position and returned without opening another.
C8_Witness ==
    /\ ev.op = "update" /\ ev.res = "ok" /\ ev.ret
    /\ cached.entrySignal # "NONE"
    /\ \E i \in Slots : acct[i].updates = 1 /\ acct[i].writes = 1 /\ acct[i].inserts = 0
    /\ openPosition = NoPosition

\* The invocation that has just returned was turned away by the guard or
\* aborted before the snapshot assignment.
Aborted(e) ==
    \/ e.op = "tick" /\ e.res = "dropped"
    \/ e.op = "fetch" /\ e.res \in {"fail", "insufficient", "compute_fail"}

Refreshed(e) == e.inv \in Slots /\ acct[e.inv].snaps >= 1

\* C9 as claimed: every tick() invocation that returns has overwritten the
\* snapshot.
C9_AlwaysRefreshes == ev.ret => Refreshed(ev)

\* C9 amended: a tick() invocation that returns has overwritten the snapshot
\* (once) unless it was dropped by the guard or aborted by a fetch failure, a
\* too short window or a computation failure; such an invocation returns
\* with the snapshot as it was.
C9_AbortStep == (ev'.ret /\ Aborted(ev')) => cached' = cached
C9_RefreshedUnlessAborted ==
    /\ [](ev.ret => (Refreshed(ev) <=> ~Aborted(ev)))
    /\ [](\A i \in Slots : acct[i].snaps <= 1)
    /\ [][C9_AbortStep]_vars

\* C9 witness: after an earlier tick filled the snapshot, a tick was aborted
\* by a short window.
C9_Witness ==
    /\ ev.op = "fetch" /\ ev.res = "insufficient" /\ ev.ret
    /\ cached.lastTickAt # JsNull
    /\ ~Refreshed(ev)

\* C10: a tick that got a sufficient window and computed both signals has
\* stored price, the four EMA values, both signals and the time in the
\* snapshot before any trade call, and the outcome of the trade call
\* (stored, conflict, rejected) leaves the snapshot alone; with no position
\* cached and entry NONE the snapshot is refreshed and nothing is written.
C10_Step ==
    /\ \A i \in Slots : FetchedOk(i) =>
          /\ cached'.price = ev'.last
          /\ <<cached'.emaEntryFast, cached'.emaEntrySlow,
               cached'.emaExitFast, cached'.emaExitSlow>> = ev'.emas
          /\ cached'.lastTickAt = ev'.at /\ ev'.at \in Times
          /\ cached'.entrySignal \in {"GOLDEN", "DEATH", "NONE"}
          /\ cached'.exitSignal \in {"GOLDEN", "DEATH", "NONE"}
          /\ acct'[i].snaps = 1
          /\ (openPosition = NoPosition /\ cached'.entrySignal = "NONE") =>
                /\ positionsCol' = positionsCol
                /\ ev'.ret
                /\ acct'[i].inserts = 0 /\ acct'[i].updates = 0
                /\ acct'[i].writes = 0
    /\ ev'.op \in {"insert", "update"} => cached' = cached
C10_SnapshotRefreshed == [][C10_Step]_vars

\* C10 witness: no position, entry NONE (with an exit cross): the tick has
\* returned with the snapshot refreshed and nothing written.
C10_Witness ==
    /\ ev.op = "fetch" /\ ev.res = "ok" /\ ev.ret
    /\ openPosition = NoPosition
    /\ cached.entrySignal = "NONE" /\ cached.exitSignal = "DEATH"
    /\ cached.price = ev.last /\ cached.lastTickAt = ev.at
    /\ \E i \in Slots : acct[i].snaps = 1 /\ acct[i].writes = 0

\* C11: closeTrade called with nothing cached is a no-op: it issues no
\* storage call and leaves cache, snapshot, collection, guard and frames as
\* they were; a completed close leaves nothing cached, so that a second close
\* right after it is such a no-op.
C11_Step ==
    /\ (ev'.op = "close" /\ openPosition = NoPosition) =>
          UNCHANGED <<openPosition, cached, positionsCol, isTickRunning,
                      pc, frame, acct>>
    /\ (ev'.op = "update" /\ ev'.res \in {"ok", "conflict"}) =>
          openPosition' = NoPosition
    /\ (ev'.op = "close" /\ ev'.ret) => openPosition' = NoPosition
    /\ UNCHANGED isTickRunning
C11_CloseWithoutPositionIsNoOp == [][C11_Step]_vars

\* C11 witness: a close was stored, and the second close right after it
\* returned early.
C11_Witness ==
    /\ ev.op = "close" /\ ev.res = "noop"
    /\ openPosition = NoPosition
    /\ \E i \in Slots : acct[i].updates = 1 /\ acct[i].writes = 1
    /\ \E k \in 1..Len(positionsCol) : positionsCol[k].status = "CLOSED"

\* C12: a stored close sets the record's status to CLOSED, its exit price to
\* the last price of the tick's window and its profitLoss to
\* (exitPrice - entryPrice) * qty for a LONG and (entryPrice - exitPrice) * qty
\* for a SHORT, entryPrice and qty being those stored at open (LONG, 100 ->
\* 90, qty 1: -10).
C12_Step ==
    \A i \in Slots :
      (pc[i] = "update" /\ ev'.op = "update" /\ ev'.res = "ok") =>
        /\ \E k \in 1..Len(positionsCol) : positionsCol[k].id = openPosition.id
        /\ \A k \in 1..Len(positionsCol) :
              positionsCol[k].id = openPosition.id =>
                LET was == positionsCol[k]
                    now == positionsCol'[k]
                IN /\ was.status = "OPEN" /\ now.status = "CLOSED"
                   /\ now.exitPrice = cached.price
                   /\ now.exitEMAfast = cached.emaExitFast
                   /\ now.exitEMAslow = cached.emaExitSlow
                   /\ now.entryPrice = was.entryPrice /\ now.qty = was.qty
                   /\ now.positionType = was.positionType
                   /\ now.profitLoss =
                        IF was.positionType = "LONG"
                          THEN (now.exitPrice - was.entryPrice) * was.qty
                          ELSE (was.entryPrice - now.exitPrice) * was.qty
C12_ProfitLoss == [][C12_Step]_vars

\* C12 witness: a LONG this process opened at 100 has just been closed at 90
\* with profitLoss -10.
C12_Witness ==
    /\ ev.op = "update" /\ ev.res = "ok"
    /\ Len(positionsCol) = 2
    /\ LastDoc.status = "CLOSED" /\ LastDoc.positionType = "LONG"
    /\ LastDoc.entryPrice = 100 /\ LastDoc.exitPrice = 90 /\ LastDoc.qty = 1
    /\ LastDoc.profitLoss = -10
    /\ cached.price = 90 /\ cached.exitSignal = "DEATH"

\* C13: whatever other clients do to the collection, no step of the program
\* deletes a record or touches a CLOSED one: a step appends at most one
\* record, which is OPEN with no exit fields, and changes an existing record
\* only from OPEN to CLOSED, keeping its identifier, instrument, side,
\* quantity and entry fields.
C13_Step ==
    ev'.op # "external" =>
      /\ Len(positionsCol') \in {Len(positionsCol), Len(positionsCol) + 1}
      /\ \A k \in 1..Len(positionsCol) :
            LET was == positionsCol[k]
                now == positionsCol'[k]
            IN \/ now = was
               \/ /\ was.status = "OPEN" /\ now.status = "CLOSED"
                  /\ now.id = was.id /\ now.symbol = was.symbol
                  /\ now.positionType = was.positionType /\ now.qty = was.qty
                  /\ now.entryPrice = was.entryPrice
                  /\ now.entryEMAfast = was.entryEMAfast
                  /\ now.entryEMAslow = was.entryEMAslow
      /\ Len(positionsCol') = Len(positionsCol) + 1 =>
            LET new == positionsCol'[Len(positionsCol')]
            IN /\ new.status = "OPEN"
               /\ new.exitPrice = JsNull /\ new.profitLoss = JsNull
               /\ \A k \in 1..Len(positionsCol) : positionsCol[k].id # new.id
C13_RecordLifecycle == [][C13_Step]_vars

\* C13 witness: two positions were closed by the process, the second one just
\* now; the first record still carries the exit it was closed with.
C13_Witness ==
    /\ ev.op = "update" /\ ev.res = "ok"
    /\ Len(positionsCol) = 2
    /\ positionsCol[1].status = "CLOSED" /\ positionsCol[1].exitPrice = 100
    /\ positionsCol[2].status = "CLOSED" /\ positionsCol[2].exitPrice = 90

\* C15: when the conditional update of a close matches no record (the
\* targeted record is no longer OPEN), the collection is left
\* as it was, the cache is cleared all the same, and the tick returns without
\* a second storage call; an update is only ever issued for the position that
\* is cached, so no later tick repeats the close.
C15_Step ==
    \A i \in Slots :
      /\ (pc[i] = "update" /\ ev'.op = "update" /\ ev'.res \in {"ok", "conflict"}) =>
            (ev'.res = "conflict" <=>
               ~\E k \in 1..Len(positionsCol) :
                   /\ positionsCol[k].id = frame[i].target
                   /\ positionsCol[k].status = "OPEN")
      /\ (pc[i] = "update" /\ ev'.op = "update" /\ ev'.res = "conflict") =>
            /\ positionsCol' = positionsCol
            /\ openPosition' = NoPosition
            /\ pc'[i] = "idle" /\ ev'.ret /\ ~ev'.threw
            /\ acct'[i].updates = 1 /\ acct'[i].inserts = 0 /\ acct'[i].writes = 0
      /\ (pc[i] # "update" /\ pc'[i] = "update") =>
            /\ openPosition # NoPosition
            /\ frame'[i].target = openPosition.id
C15_ConflictClearsCache == [][C15_Step]_vars

\* C15 witness: the update of a close found its record closed by another
\* client; the record keeps that client's exit and the cache is empty.
C15_Witness ==
    /\ ev.op = "update" /\ ev.res = "conflict" /\ ev.ret
    /\ openPosition = NoPosition
    /\ cached.price = 100
    /\ Len(positionsCol) = 2
    /\ LastDoc.status = "CLOSED" /\ LastDoc.exitPrice = 90
    /\ OpenDocs(positionsCol, SYMBOL) = {}

\* C14: with persistence, no tick body runs before startup reconciliation has
\* completed; reconciliation caches the instrument's most recent OPEN record,
\* or nothing if there is none, and the cache still equals that record when
\* the first tick of the process reaches its decision, so that a restart with
\* a position OPEN keeps track of it (and, C1, opens no second one).
C14_Reconciled ==
    IF \E k \in 1..Len(positionsCol) :
          positionsCol[k].symbol = SYMBOL /\ positionsCol[k].status = "OPEN"
      THEN \E k \in 1..Len(positionsCol) :
              /\ positionsCol[k].symbol = SYMBOL /\ positionsCol[k].status = "OPEN"
              /\ \A j \in (k + 1)..Len(positionsCol) :
                    ~(positionsCol[j].symbol = SYMBOL /\ positionsCol[j].status = "OPEN")
              /\ openPosition # NoPosition
              /\ \A f \in DOMAIN openPosition : openPosition[f] = positionsCol[k][f]
      ELSE openPosition = NoPosition
C14_Step ==
    /\ (ev'.op = "tick" /\ ev'.res = "started") => boot = "listening"
    /\ (ev'.op = "restore" /\ ev'.res = "ok") =>
          boot' = "listening" /\ C14_Reconciled'
C14_ReconciledBeforeTicks ==
    /\ [](~DRY_RUN /\ boot # "listening" =>
             Running = {} /\ ~isTickRunning /\ cached = InitialCached)
    /\ [](~DRY_RUN /\ boot = "listening" /\ cached = InitialCached => C14_Reconciled)
    /\ [][C14_Step]_vars

\* C14 witness: the process was restarted while a position it had opened was
\* OPEN; the first tick after the restart has started with that position
\* cached.
C14_Witness ==
    /\ ~DRY_RUN /\ ev.op = "tick" /\ ev.res = "started"
    /\ cached = InitialCached
    /\ Len(positionsCol) = 2 /\ LastDoc.status = "OPEN"
    /\ openPosition # NoPosition /\ openPosition.id = LastDoc.id

\* C16: with DRY_RUN the process never connects, never runs the
\* reconciliation query and never issues an insert or an update, and the
\* collection stays as it was; a tick still decides by the same rules and
\* applies the decision to the cache: with nothing cached entry GOLDEN caches
\* a LONG and entry DEATH a SHORT (_id "dryrun"), a cached LONG is dropped on
\* exit DEATH and a cached SHORT on exit GOLDEN, anything else keeps the cache.
C16_Step ==
    DRY_RUN =>
      /\ positionsCol' = positionsCol
      /\ \A i \in Slots : FetchedOk(i) =>
            /\ pc'[i] = "idle" /\ ev'.ret
            /\ openPosition' =
                 IF openPosition = NoPosition
                   THEN IF cached'.entrySignal \in {"GOLDEN", "DEATH"}
                          THEN ExpectedOpen(DRYRUN_ID, SideOf(cached'.entrySignal),
                                            cached'.price, cached'.emaEntryFast,
                                            cached'.emaEntrySlow)
                          ELSE NoPosition
                 ELSE IF \/ openPosition.positionType = "LONG"
                            /\ cached'.exitSignal = "DEATH"
                         \/ openPosition.positionType = "SHORT"
                            /\ cached'.exitSignal = "GOLDEN"
                   THEN NoPosition
                 ELSE openPosition
C16_DryRunNeverTouchesStore ==
    /\ [](DRY_RUN =>
            /\ boot = "listening"
            /\ ev.op \notin {"connect", "restore", "insert", "update"}
            /\ \A i \in Slots :
                  /\ pc[i] \in {"idle", "fetch"}
                  /\ acct[i].inserts = 0 /\ acct[i].updates = 0
                  /\ acct[i].writes = 0)
    /\ [][C16_Step]_vars

\* C16 witness: DRY_RUN, the collection holds a record; a tick with entry
\* GOLDEN and exit DEATH has dropped the cached LONG and opened nothing.
C16_Witness ==
    /\ DRY_RUN /\ ev.op = "fetch" /\ ev.res = "ok" /\ ev.ret
    /\ cached.entrySignal = "GOLDEN" /\ cached.exitSignal = "DEATH"
    /\ openPosition = NoPosition
    /\ positionsCol # <<>>

\* C17: a fetched window is accepted iff it holds at least
\* max(EMA_ENTRY_SLOW, EMA_EXIT_SLOW) prices: with exactly that many the tick
\* computes its signals and refreshes the snapshot, with one less it returns
\* with cache, snapshot and collection as they were.
C17_Step ==
    \A i \in Slots :
      (pc[i] = "fetch" /\ ev'.op = "fetch" /\ ev'.n # JsNull) =>
        /\ ev'.res = "ok" <=> ev'.n >= Max(EMA_ENTRY_SLOW, EMA_EXIT_SLOW)
        /\ ev'.n = Max(EMA_ENTRY_SLOW, EMA_EXIT_SLOW) =>
              /\ acct'[i].snaps = 1
              /\ cached'.price = ev'.last /\ cached'.lastTickAt = ev'.at
              /\ <<cached'.emaEntryFast, cached'.emaEntrySlow,
                   cached'.emaExitFast, cached'.emaExitSlow>> = ev'.emas
        /\ ev'.n = Max(EMA_ENTRY_SLOW, EMA_EXIT_SLOW) - 1 =>
              /\ ev'.res = "insufficient" /\ ev'.ret /\ ~ev'.threw
              /\ UNCHANGED <<openPosition, cached, positionsCol>>
              /\ acct'[i] = NoAcct
C17_WindowBoundary == [][C17_Step]_vars

\* C17 witness: a window of exactly max(EMA_ENTRY_SLOW, EMA_EXIT_SLOW) prices
\* was accepted: the snapshot holds its last price and an exit cross (the
\* slow entry series has one value only, so the entry signal is NONE).
C17_Witness ==
    /\ ev.op = "fetch" /\ ev.res = "ok"
    /\ ev.n = Max(EMA_ENTRY_SLOW, EMA_EXIT_SLOW)
    /\ cached.price = ev.last /\ cached.lastTickAt = ev.at
    /\ cached.entrySignal = "NONE" /\ cached.exitSignal = "GOLDEN"

\* C18: detectCross returns GOLDEN iff prevFast < prevSlow and fast > slow,
\* DEATH iff prevFast > prevSlow and fast < slow, and NONE in every other
\* case, those with prevFast = prevSlow or fast = slow included.
C18_DetectCross ==
    ev.op = "detectCross" =>
      LET prevFast == ev.emas[1]
          prevSlow == ev.emas[2]
          fast == ev.emas[3]
          slow == ev.emas[4]
      IN /\ ev.res \in {"GOLDEN", "DEATH", "NONE"}
         /\ ev.res = "GOLDEN" <=> (prevFast < prevSlow /\ fast > slow)
         /\ ev.res = "DEATH" <=> (prevFast > prevSlow /\ fast < slow)
         /\ (prevFast = prevSlow \/ fast = slow) => ev.res = "NONE"

\* C18 witness: the fast line ends above the slow one after starting level
\* with it: NONE.
C18_Witness ==
    /\ ev.op = "detectCross"
    /\ ev.emas[1] = ev.emas[2] /\ ev.emas[3] > ev.emas[4]
    /\ ev.res = "NONE"

\* C19: serving a read endpoint (health, history, total PnL, open positions,
\* a snapshot query that is not stale) leaves cache, snapshot, guard,
\* collection and the invocations in flight as they were; cache and snapshot
\* change only in a step of the tick that holds the guard (a stale snapshot
\* query only calls tick(), which takes or respects the guard like any other
\* call) or when the process starts and reconciles.
C19_Step ==
    /\ ev'.op = "read" =>
          UNCHANGED <<openPosition, cached, isTickRunning, positionsCol,
                      pc, frame, acct>>
    /\ (openPosition' # openPosition \/ cached' # cached) =>
          \/ /\ isTickRunning
             /\ ev'.op \in {"fetch", "insert", "update"}
             /\ ev'.inv \in Running
          \/ ev'.op \in {"restore", "restart"}
    /\ isTickRunning' # isTickRunning =>
          ev'.op \in {"tick", "fetch", "insert", "update", "restart"}
    /\ ev'.op = "tick" =>
          /\ UNCHANGED <<openPosition, cached, positionsCol>>
          /\ isTickRunning'
          /\ isTickRunning => UNCHANGED <<pc, frame, acct>>
C19_ReadsChangeNothing == [][C19_Step]_vars

\* C19 witness: a read was served while a tick that had refreshed the
\* snapshot was suspended in its conditional update.
C19_Witness ==
    /\ ev.op = "read"
    /\ isTickRunning /\ \E i \in Slots : pc[i] = "update"
    /\ openPosition # NoPosition
    /\ cached.lastTickAt # JsNull

\* The cache agrees with the collection: it is empty iff the collection
\* holds no OPEN record of the instrument, and otherwise identifier, side and
\* entry price are those of that record.
C20_Consistent ==
    IF openPosition = NoPosition
      THEN \A k \in 1..Len(positionsCol) :
              ~(positionsCol[k].symbol = SYMBOL /\ positionsCol[k].status = "OPEN")
      ELSE \E k \in 1..Len(positionsCol) :
              /\ positionsCol[k].symbol = SYMBOL /\ positionsCol[k].status = "OPEN"
              /\ positionsCol[k].id = openPosition.id
              /\ positionsCol[k].positionType = openPosition.positionType
              /\ positionsCol[k].entryPrice = openPosition.entryPrice

\* C20 as claimed: with persistence, the cache agrees with the collection
\* whenever the guard is free.
C20_WheneverGuardFree == (~DRY_RUN /\ ~isTickRunning) => C20_Consistent

\* C20 amended: with persistence, once startup reconciliation has completed
\* the cache agrees with the collection whenever the guard is free; a
\* rejected insert leaves the cache empty and a rejected conditional update
\* leaves the cached position in place, the collection unchanged in both.
C20_FailStep ==
    /\ (ev'.op = "insert" /\ ev'.res = "fail") =>
          /\ openPosition = NoPosition /\ openPosition' = NoPosition
          /\ positionsCol' = positionsCol
    /\ (ev'.op = "update" /\ ev'.res = "fail") =>
          /\ openPosition # NoPosition /\ openPosition' = openPosition
          /\ positionsCol' = positionsCol
C20_CacheAgreesAfterReconciliation ==
    /\ []((~DRY_RUN /\ boot = "listening" /\ ~isTickRunning) => C20_Consistent)
    /\ [][C20_FailStep]_vars

\* C20 witness: the conditional update of a close was rejected; the guard is
\* free, the record is still OPEN and still cached.
C20_Witness ==
    /\ ~DRY_RUN /\ ev.op = "update" /\ ev.res = "fail"
    /\ ~isTickRunning /\ boot = "listening"
    /\ openPosition # NoPosition
    /\ \E k \in 1..Len(positionsCol) :
          positionsCol[k].id = openPosition.id /\ positionsCol[k].status = "OPEN"

====
